---- MODULE Spec2Model ----
(***************************************************************************)
(* Model of the ingestion API of the energy-telemetry collector:           *)
(*   app/auth.py  - DeviceAuthenticator and verify_device_auth_compatible  *)
(*   app/main.py  - the /ingest handler                                    *)
(*   app/models.py - the three tables (energy_raw, energy_cleaned,         *)
(*                   authorized_devices)                                   *)
(* Strings that the code inspects character by character (MAC addresses)   *)
(* are sequences of one-character strings.  An HTTP header that is absent  *)
(* (Python None) is the one-element sequence NoneHdr.                      *)
(***************************************************************************)
EXTENDS Integers, Sequences, FiniteSets, Bags, TLC

VARIABLES
    COMPATIBILITY_MODE,   \* auth.py:15, read once from the environment
    DEFAULT_ALLOWED_IPS,  \* auth.py:16, read once from the environment
    registry,             \* table authorized_devices: mac -> [is_active, last_seen]
    energy_raw,           \* table energy_raw: timestamp_utc -> device_id
    energy_cleaned,       \* table energy_cleaned: timestamp_utc -> device_id
    now,                  \* the wall clock read by datetime.now(); one tick per request
    pc,                   \* position of the handler of req: "idle" or "cleaning"
    session,              \* the SQLAlchemy session of req: [new, active]
    req,                  \* the request that took the last step (gated or answered)
    auth,                 \* what verify_device_auth_compatible returned or raised for it
    env,                  \* what its handler met: cleaner outcome, database up, key free
    resp,                 \* the HTTP response it got, if it was answered in the last step
    waiting,              \* bag of the other handlers that wait for the cleaner
    user_active,          \* agent_with_auth.py:344, set by the input listeners
    previous_data,        \* agent_with_auth.py:333, the last gating vector
    data_buffer,          \* agent_with_auth.py:263, rows waiting for a batch file
    file_count,           \* agent_with_auth.py:264, number of the next batch file
    files,                \* directory agent_logs: number -> [rows, complete]
    agent_pc,             \* position of main(): "evaluate", "reset_flag", "grab", "send", "sleep"
    cycle,                \* locals of the current loop iteration and what it met
    ticks,                \* loop iterations started since the agent was installed
    built,                \* samples built by process_and_send_data so far
    runs                  \* [saves, failed_writes, restarts] of the offline buffer

serverVars == <<COMPATIBILITY_MODE, DEFAULT_ALLOWED_IPS, registry, energy_raw,
                energy_cleaned, now, pc, session, req, auth, env, resp, waiting>>

agentVars == <<user_active, previous_data, data_buffer, file_count, files,
               agent_pc, cycle, ticks, built, runs>>

vars == <<COMPATIBILITY_MODE, DEFAULT_ALLOWED_IPS, registry, energy_raw,
          energy_cleaned, now, pc, session, req, auth, env, resp, waiting,
          user_active, previous_data, data_buffer, file_count, files,
          agent_pc, cycle, ticks, built, runs>>

-----------------------------------------------------------------------------
(* Bounds and input sets *)

\* number of /ingest requests a behaviour may contain
MaxRequests == 2

NoneHdr == <<"<None>">>

\* header identifiers as clients may send them: device A in a non-canonical
\* spelling (lower case, '-' as separator) and in the canonical one, device B
MacA_lower_dash == <<"a", "a", "-", "0", "1">>
MacA_canonical  == <<"A", "A", ":", "0", "1">>
MacB_canonical  == <<"B", "B", ":", "0", "2">>

MacStrings == {MacA_lower_dash, MacA_canonical, MacB_canonical}

\* the MAC-Address header: one of these strings, the empty string, or absent
MacHeaders == MacStrings \cup {<<>>, NoneHdr}

\* the identifiers the operator registers and removes (either spelling)
AdminMacs == {MacA_lower_dash, MacA_canonical}

ClientIPs == {"10.0.0.1", "10.0.0.2"}

\* the request body (schemas.EnergyData), reduced to its key and one payload
\* field: two samples that collide on the key, and a third one
Samples == {[timestamp_utc |-> "t0", device_id |-> "dev1"],
            [timestamp_utc |-> "t0", device_id |-> "dev2"],
            [timestamp_utc |-> "t1", device_id |-> "dev1"]}

\* what the cleaning collaborator may do with POST /clean:
\*   ok               200 with a cleaned_data record for the sample
\*   http_error       a non-2xx status (raise_for_status raises)
\*   connection_error the connection fails
\*   timeout          no answer within 10 s
\*   no_cleaned_data  200 with a body that has no "cleaned_data" (KeyError)
\*   bad_fields       200 with cleaned_data holding a key EnergyCleaned has no
\*                    column for (TypeError in the constructor)
\*   unstorable       200 with cleaned_data the constructor accepts and the
\*                    database rejects at flush (no timestamp_utc: NULL key)
CleanerOutcomes == {"ok", "http_error", "connection_error", "timeout",
                    "no_cleaned_data", "bad_fields", "unstorable"}

\* auth.py:28: the server's shared secret
AUTH_SECRET_KEY == "K"

-----------------------------------------------------------------------------
(* Strings, truthiness, HMAC *)

\* Python truthiness of an Optional[str]: None and "" are falsy
Truthy(h) == h # NoneHdr /\ h # <<>>

\* str.upper() on one character
UpperChar(c) ==
    CASE c = "a" -> "A"
      [] c = "b" -> "B"
      [] OTHER   -> c

\* str.replace('-', ':') on one character
DashToColon(c) == IF c = "-" THEN ":" ELSE c

\* faulty variant: replaces the separator but forgets upper()
_normalize_mac_no_upper(mac_address) ==
    [i \in 1..Len(mac_address) |-> DashToColon(mac_address[i])]

\* DeviceAuthenticator._normalize_mac: mac_address.upper().replace('-', ':')
_normalize_mac(mac_address) ==
    [i \in 1..Len(mac_address) |-> DashToColon(UpperChar(mac_address[i]))]

\* hmac.new(key, msg, sha256).hexdigest(): an injective function of (key, msg)
hmac_hexdigest(key, msg) == <<"hmac-sha256", key>> \o msg

\* agent_with_auth.generate_device_certificate: no normalisation of its own
generate_device_certificate(mac_address, secret_key) ==
    hmac_hexdigest(secret_key, mac_address)

CertA_valid      == generate_device_certificate(MacA_canonical, AUTH_SECRET_KEY)
CertA_wrong_key  == generate_device_certificate(MacA_canonical, "X")
CertA_unnormal   == generate_device_certificate(MacA_lower_dash, AUTH_SECRET_KEY)
CertB_valid      == generate_device_certificate(MacB_canonical, AUTH_SECRET_KEY)

\* the Device-Certificate header: a certificate computed by the agent with the
\* server's secret, with another secret, or over the non-canonical spelling;
\* or absent
Certificates ==
    {CertA_valid, CertA_wrong_key, CertA_unnormal, CertB_valid, NoneHdr}

-----------------------------------------------------------------------------
(* app/auth.py *)

\* faulty variant: the lookup ignores the is_active flag
is_device_authorized_ignores_active(reg, mac_address, t) ==
    IF ~Truthy(mac_address)
    THEN [ok |-> FALSE, registry |-> reg]
    ELSE LET m == _normalize_mac(mac_address) IN
         IF m \in DOMAIN reg
         THEN [ok |-> TRUE,
               registry |-> [reg EXCEPT ![m].last_seen = t]]
         ELSE [ok |-> FALSE, registry |-> reg]

\* DeviceAuthenticator.is_device_authorized: the query for an active row with
\* the normalized key; a hit sets last_seen = datetime.now() and commits
is_device_authorized(reg, mac_address, t) ==
    IF ~Truthy(mac_address)
    THEN [ok |-> FALSE, registry |-> reg]
    ELSE LET m == _normalize_mac(mac_address) IN
         IF m \in DOMAIN reg /\ reg[m].is_active
         THEN [ok |-> TRUE,
               registry |-> [reg EXCEPT ![m].last_seen = t]]
         ELSE [ok |-> FALSE, registry |-> reg]

\* faulty variant: any non-empty certificate is accepted
verify_certificate_accepts_any(mac_address, certificate) ==
    Truthy(mac_address) /\ Truthy(certificate)

\* DeviceAuthenticator.verify_certificate
verify_certificate(mac_address, certificate) ==
    IF ~Truthy(mac_address) \/ ~Truthy(certificate)
    THEN FALSE
    ELSE certificate = hmac_hexdigest(AUTH_SECRET_KEY, _normalize_mac(mac_address))

Rejected(code, detail, reg) ==
    [admitted |-> FALSE, code |-> code, detail |-> detail,
     mac_address |-> <<>>, method |-> "", registry |-> reg]

Admitted(mac, method, reg) ==
    [admitted |-> TRUE, code |-> 200, detail |-> "",
     mac_address |-> mac, method |-> method, registry |-> reg]

\* faulty variant: full-auth checks the certificate and never the registry
verify_device_auth_compatible_cert_only(reg, mac_address, device_certificate, client_ip, t, compat, allowed) ==
    IF Truthy(mac_address) /\ Truthy(device_certificate)
    THEN IF ~verify_certificate(mac_address, device_certificate)
         THEN Rejected(401, "Invalid device certificate", reg)
         ELSE Admitted(mac_address, "full_auth", reg)
    ELSE IF compat
    THEN IF allowed # {} /\ client_ip \in allowed
         THEN Admitted(<<"legacy-", client_ip>>, "ip_whitelist", reg)
         ELSE Admitted(<<"legacy-", client_ip>>, "legacy_mode", reg)
    ELSE Rejected(401,
                  "Missing authentication headers. Please upgrade your agent.",
                  reg)

\* faulty variant: with an allow-list configured, a caller not on it is turned away
verify_device_auth_compatible_list_enforced(reg, mac_address, device_certificate, client_ip, t, compat, allowed) ==
    IF Truthy(mac_address) /\ Truthy(device_certificate)
    THEN LET a == is_device_authorized(reg, mac_address, t) IN
         IF ~a.ok
         THEN Rejected(403, "Device not authorized", a.registry)
         ELSE IF ~verify_certificate(mac_address, device_certificate)
         THEN Rejected(401, "Invalid device certificate", a.registry)
         ELSE Admitted(mac_address, "full_auth", a.registry)
    ELSE IF compat
    THEN IF allowed # {} /\ client_ip \in allowed
         THEN Admitted(<<"legacy-", client_ip>>, "ip_whitelist", reg)
         ELSE IF allowed # {}
         THEN Rejected(403, "Device not authorized", reg)
         ELSE Admitted(<<"legacy-", client_ip>>, "legacy_mode", reg)
    ELSE Rejected(401,
                  "Missing authentication headers. Please upgrade your agent.",
                  reg)

\* faulty variant: the allow-list is honoured even with compatibility mode disabled
verify_device_auth_compatible_list_first(reg, mac_address, device_certificate, client_ip, t, compat, allowed) ==
    IF Truthy(mac_address) /\ Truthy(device_certificate)
    THEN LET a == is_device_authorized(reg, mac_address, t) IN
         IF ~a.ok
         THEN Rejected(403, "Device not authorized", a.registry)
         ELSE IF ~verify_certificate(mac_address, device_certificate)
         THEN Rejected(401, "Invalid device certificate", a.registry)
         ELSE Admitted(mac_address, "full_auth", a.registry)
    ELSE IF allowed # {} /\ client_ip \in allowed
    THEN Admitted(<<"legacy-", client_ip>>, "ip_whitelist", reg)
    ELSE IF compat
    THEN Admitted(<<"legacy-", client_ip>>, "legacy_mode", reg)
    ELSE Rejected(401,
                  "Missing authentication headers. Please upgrade your agent.",
                  reg)

\* faulty variant: a failed full-auth check falls through to compatibility mode
verify_device_auth_compatible_fallthrough(reg, mac_address, device_certificate, client_ip, t, compat, allowed) ==
    LET a == is_device_authorized(reg, mac_address, t) IN
    IF Truthy(mac_address) /\ Truthy(device_certificate) /\ a.ok
       /\ verify_certificate(mac_address, device_certificate)
    THEN Admitted(mac_address, "full_auth", a.registry)
    ELSE IF compat
    THEN IF allowed # {} /\ client_ip \in allowed
         THEN Admitted(<<"legacy-", client_ip>>, "ip_whitelist", reg)
         ELSE Admitted(<<"legacy-", client_ip>>, "legacy_mode", reg)
    ELSE IF Truthy(mac_address) /\ Truthy(device_certificate)
    THEN IF ~a.ok
         THEN Rejected(403, "Device not authorized", reg)
         ELSE Rejected(401, "Invalid device certificate", a.registry)
    ELSE Rejected(401,
                  "Missing authentication headers. Please upgrade your agent.",
                  reg)

\* faulty variant: the identifier header alone is enough to enter full-auth
verify_device_auth_compatible_identifier_only(reg, mac_address, device_certificate, client_ip, t, compat, allowed) ==
    IF Truthy(mac_address)
    THEN LET a == is_device_authorized(reg, mac_address, t) IN
         IF ~a.ok
         THEN Rejected(403, "Device not authorized", a.registry)
         ELSE IF ~verify_certificate(mac_address, device_certificate)
         THEN Rejected(401, "Invalid device certificate", a.registry)
         ELSE Admitted(mac_address, "full_auth", a.registry)
    ELSE IF compat
    THEN IF allowed # {} /\ client_ip \in allowed
         THEN Admitted(<<"legacy-", client_ip>>, "ip_whitelist", reg)
         ELSE Admitted(<<"legacy-", client_ip>>, "legacy_mode", reg)
    ELSE Rejected(401,
                  "Missing authentication headers. Please upgrade your agent.",
                  reg)

\* verify_device_auth_compatible: the three modes, in the order of the code
verify_device_auth_compatible(reg, mac_address, device_certificate, client_ip, t, compat, allowed) ==
    IF Truthy(mac_address) /\ Truthy(device_certificate)
    THEN LET a == is_device_authorized(reg, mac_address, t) IN
         IF ~a.ok
         THEN Rejected(403, "Device not authorized", a.registry)
         ELSE IF ~verify_certificate(mac_address, device_certificate)
         THEN Rejected(401, "Invalid device certificate", a.registry)
         ELSE Admitted(mac_address, "full_auth", a.registry)
    ELSE IF compat
    THEN IF allowed # {} /\ client_ip \in allowed
         THEN Admitted(<<"legacy-", client_ip>>, "ip_whitelist", reg)
         ELSE Admitted(<<"legacy-", client_ip>>, "legacy_mode", reg)
    ELSE Rejected(401,
                  "Missing authentication headers. Please upgrade your agent.",
                  reg)

-----------------------------------------------------------------------------
(* The SQLAlchemy session of a request (sqlalchemy.orm.Session, as the code   *)
(* uses it): add() makes an object pending; commit() flushes the pending      *)
(* objects as INSERTs in one transaction and commits it.  A failed flush      *)
(* rolls the transaction back, expunges the pending objects and leaves the    *)
(* session inactive: every later commit() raises until rollback() is called.  *)

EmptySession == [new |-> {}, active |-> TRUE]

\* db.add(obj)
SessionAdd(s, obj) == [s EXCEPT !.new = s.new \cup {obj}]

\* a pending row: the table, the primary key (timestamp_utc), the payload, and
\* whether the database accepts its column values
Row(table, key, val, storable) ==
    [table |-> table, key |-> key, val |-> val, storable |-> storable]

Table(raw, cleaned, name) == IF name = "energy_raw" THEN raw ELSE cleaned

\* the flush succeeds iff the database is reachable, every pending row has
\* acceptable values and no pending primary key is already in its table
FlushOk(s, raw, cleaned, dbUp) ==
    /\ dbUp
    /\ \A o \in s.new :
          o.storable /\ o.key \notin DOMAIN Table(raw, cleaned, o.table)

Insert(tbl, s, name) ==
    [k \in DOMAIN tbl \cup {o.key : o \in {x \in s.new : x.table = name}} |->
        IF k \in DOMAIN tbl THEN tbl[k]
        ELSE (CHOOSE o \in s.new : o.table = name /\ o.key = k).val]

\* db.commit()
SessionCommit(s, raw, cleaned, dbUp) ==
    IF ~s.active
    THEN [raised |-> TRUE, error |-> "PendingRollbackError",
          session |-> s, raw |-> raw, cleaned |-> cleaned]
    ELSE IF FlushOk(s, raw, cleaned, dbUp)
    THEN [raised |-> FALSE, error |-> "",
          session |-> EmptySession,
          raw |-> Insert(raw, s, "energy_raw"),
          cleaned |-> Insert(cleaned, s, "energy_cleaned")]
    ELSE [raised |-> TRUE,
          error |-> IF dbUp THEN "IntegrityError" ELSE "OperationalError",
          session |-> [new |-> {}, active |-> FALSE],
          raw |-> raw, cleaned |-> cleaned]

\* db.rollback()
SessionRollback(s) == EmptySession

-----------------------------------------------------------------------------
(* app/main.py: ingest *)

NoResponse ==
    [code |-> 0, status |-> "", detail |-> "", reason |-> "",
     device |-> "", auth_method |-> ""]

HttpError(code, detail) ==
    [NoResponse EXCEPT !.code = code, !.detail = detail]

\* lines 69-70: raw_record = models.EnergyRaw(**data.dict()); db.add(raw_record)
ingest_add_raw(s, data) ==
    SessionAdd(s, Row("energy_raw", data.timestamp_utc, data.device_id, TRUE))

\* the exception raised in lines 74-77, before the cleaned record is added
CleanerException(outcome) ==
    CASE outcome = "http_error"       -> "HTTPError"
      [] outcome = "connection_error" -> "ConnectionError"
      [] outcome = "timeout"          -> "Timeout"
      [] outcome = "no_cleaned_data"  -> "KeyError"
      [] outcome = "bad_fields"       -> "TypeError"
      [] OTHER                        -> ""

\* faulty variant: a commit that raises in the handler is swallowed
ingest_on_cleaning_failure_swallow(s, raw, cleaned, data, method, e, dbUp) ==
    LET c == SessionCommit(s, raw, cleaned, dbUp) IN
    [resp |-> [code |-> 200, status |-> "partial_success", detail |-> "",
               reason |-> e, device |-> data.device_id, auth_method |-> method],
     session |-> SessionRollback(c.session), raw |-> c.raw, cleaned |-> c.cleaned]

\* lines 84-93: the handler of a cleaning failure commits what is pending; if
\* that commit raises, the outer handler rolls back and answers 500
ingest_on_cleaning_failure(s, raw, cleaned, data, method, e, dbUp) ==
    LET c == SessionCommit(s, raw, cleaned, dbUp) IN
    IF ~c.raised
    THEN [resp |-> [code |-> 200, status |-> "partial_success", detail |-> "",
                    reason |-> e, device |-> data.device_id,
                    auth_method |-> method],
          session |-> c.session, raw |-> c.raw, cleaned |-> c.cleaned]
    ELSE [resp |-> HttpError(500, "Processing failed: " \o c.error),
          session |-> SessionRollback(c.session),
          raw |-> c.raw, cleaned |-> c.cleaned]

\* faulty variant: the cleaned record is built and never added to the session
ingest_after_clean_no_add(s, raw, cleaned, data, method, outcome, dbUp) ==
    IF outcome \in {"ok", "unstorable"}
    THEN LET c == SessionCommit(s, raw, cleaned, dbUp) IN
         IF ~c.raised
         THEN [resp |-> [code |-> 200, status |-> "success", detail |-> "",
                         reason |-> "", device |-> data.device_id,
                         auth_method |-> method],
               session |-> c.session, raw |-> c.raw, cleaned |-> c.cleaned]
         ELSE ingest_on_cleaning_failure(c.session, c.raw, c.cleaned, data,
                                         method, c.error, dbUp)
    ELSE ingest_on_cleaning_failure(s, raw, cleaned, data, method,
                                    CleanerException(outcome), dbUp)

\* lines 73-93: the rest of the handler, once the POST to the cleaner returned
\* (or raised): outcome is what the collaborator did, dbUp whether the
\* database accepts statements while the handler runs
ingest_after_clean(s, raw, cleaned, data, method, outcome, dbUp) ==
    IF outcome \in {"ok", "unstorable"}
    THEN \* cleaned_record = models.EnergyCleaned(**cleaned_data); db.add; db.commit
         LET s2 == SessionAdd(s, Row("energy_cleaned", data.timestamp_utc,
                                     data.device_id, outcome = "ok"))
             c  == SessionCommit(s2, raw, cleaned, dbUp)
         IN  IF ~c.raised
             THEN [resp |-> [code |-> 200, status |-> "success", detail |-> "",
                             reason |-> "", device |-> data.device_id,
                             auth_method |-> method],
                   session |-> c.session, raw |-> c.raw, cleaned |-> c.cleaned]
             ELSE ingest_on_cleaning_failure(c.session, c.raw, c.cleaned, data,
                                             method, c.error, dbUp)
    ELSE ingest_on_cleaning_failure(s, raw, cleaned, data, method,
                                    CleanerException(outcome), dbUp)

-----------------------------------------------------------------------------
(* DeviceRegistry admin operations (utils/mac_manager.py) *)

\* add(identifier, ...): false if the identifier already exists
add_device(reg, mac_address) ==
    LET m == _normalize_mac(mac_address) IN
    IF m \in DOMAIN reg
    THEN [ok |-> FALSE, registry |-> reg]
    ELSE [ok |-> TRUE,
          registry |-> [k \in DOMAIN reg \cup {m} |->
                          IF k = m THEN [is_active |-> TRUE, last_seen |-> 0]
                          ELSE reg[k]]]

\* remove(identifier): false if not found; clears the active flag
remove_device(reg, mac_address) ==
    LET m == _normalize_mac(mac_address) IN
    IF m \notin DOMAIN reg
    THEN [ok |-> FALSE, registry |-> reg]
    ELSE [ok |-> TRUE, registry |-> [reg EXCEPT ![m].is_active = FALSE]]

-----------------------------------------------------------------------------
(* The state machine *)

NoRequest ==
    [mac |-> NoneHdr, cert |-> NoneHdr, ip |-> "",
     data |-> [timestamp_utc |-> "", device_id |-> ""]]

NoAuth ==
    [admitted |-> FALSE, code |-> 0, detail |-> "", mac_address |-> <<>>,
     method |-> ""]

NoEnv == [cleaner |-> "", dbUp |-> TRUE, key_free |-> TRUE]

\* the agent process has just started: the module-level assignments of
\* agent_with_auth.py and an empty directory agent_logs
ZeroData == [cpu |-> 0, gpu |-> 0, memory |-> 0, disk_read |-> 0, disk_write |-> 0]

NoCycle ==
    [time |-> 0, in_class |-> FALSE, should_grab |-> FALSE, new_data |-> ZeroData,
     significant |-> FALSE, result |-> "", write |-> [kind |-> "", rows |-> 0],
     api_success |-> FALSE,
     raised |-> FALSE, timestamp |-> 0, late_event |-> FALSE]

InitAgent ==
    /\ user_active = FALSE
    /\ previous_data = ZeroData
    /\ data_buffer = << >>
    /\ file_count = 0
    /\ files = << >>
    /\ agent_pc = "evaluate"
    /\ cycle = NoCycle
    /\ ticks = 0
    /\ built = 0
    /\ runs = [saves |-> 0, failed_writes |-> 0, restarts |-> 0]

Init ==
    /\ InitAgent
    /\ COMPATIBILITY_MODE \in BOOLEAN
    /\ DEFAULT_ALLOWED_IPS \in {{}, {"10.0.0.1"}}
    /\ registry = << >>
    /\ energy_raw = << >>
    /\ energy_cleaned = << >>
    /\ now = 0
    /\ pc = "idle"
    /\ session = EmptySession
    /\ req = NoRequest
    /\ auth = NoAuth
    /\ waiting = EmptyBag
    /\ env = NoEnv
    /\ resp = NoResponse

\* POST /admin/devices
AdminAdd(mac) ==
    /\ registry' = add_device(registry, mac).registry
    /\ UNCHANGED <<COMPATIBILITY_MODE, DEFAULT_ALLOWED_IPS, energy_raw,
                   energy_cleaned, now, pc, session, req, auth, env, resp,
                   waiting>>
    /\ UNCHANGED agentVars

\* DELETE /admin/devices/{mac_address}
AdminRemove(mac) ==
    /\ registry' = remove_device(registry, mac).registry
    /\ UNCHANGED <<COMPATIBILITY_MODE, DEFAULT_ALLOWED_IPS, energy_raw,
                   energy_cleaned, now, pc, session, req, auth, env, resp,
                   waiting>>
    /\ UNCHANGED agentVars

\* what a handler that waits for the cleaner holds: its parameters data and
\* auth_info (main.py:59-60) and its session db; the headers of the request
\* are not among them
Handler(data, auth_info, db) ==
    [data |-> data,
     auth_info |-> [mac_address |-> auth_info.mac_address,
                    method |-> auth_info.method],
     session |-> db]

\* the handlers that have posted their sample to the cleaner and wait for its
\* answer: FastAPI runs ingest, a def, in its thread pool, one thread and one
\* session per request, so that several can wait at main.py:74 at once
InFlight ==
    IF pc = "cleaning"
    THEN waiting (+) SetToBag({Handler(req.data, auth, session)})
    ELSE waiting

\* POST /ingest arrives: the dependency verify_device_auth_compatible runs; a
\* rejection is the response, an admission enters the handler, which adds the
\* raw record to its session and posts the sample to the cleaner.  Handlers of
\* earlier requests may be waiting for the cleaner meanwhile.
IngestRequest(mac, cert, ip, data) ==
    /\ now < MaxRequests
    /\ now' = now + 1
    /\ waiting' = InFlight
    /\ LET a == verify_device_auth_compatible(registry, mac, cert, ip, now + 1,
                    COMPATIBILITY_MODE, DEFAULT_ALLOWED_IPS)
       IN  /\ registry' = a.registry
           /\ auth' = [admitted |-> a.admitted, code |-> a.code,
                       detail |-> a.detail, mac_address |-> a.mac_address,
                       method |-> a.method]
           /\ req' = [mac |-> mac, cert |-> cert, ip |-> ip, data |-> data]
           /\ env' = NoEnv
           /\ IF a.admitted
              THEN /\ session' = ingest_add_raw(EmptySession, data)
                   /\ pc' = "cleaning"
                   /\ resp' = NoResponse
              ELSE /\ session' = EmptySession
                   /\ pc' = "idle"
                   /\ resp' = HttpError(a.code, a.detail)
    /\ UNCHANGED <<COMPATIBILITY_MODE, DEFAULT_ALLOWED_IPS, energy_raw,
                   energy_cleaned>>
    /\ UNCHANGED agentVars

\* the POST of the waiting handler h to the cleaner returns or raises, and h
\* runs to its end; req and auth then show what h holds of its request
IngestFinish(h, outcome, dbUp) ==
    /\ BagIn(h, InFlight)
    /\ LET r == ingest_after_clean(h.session, energy_raw, energy_cleaned,
                                   h.data, h.auth_info.method, outcome, dbUp)
       IN  /\ resp' = r.resp
           /\ energy_raw' = r.raw
           /\ energy_cleaned' = r.cleaned
           /\ session' = r.session
    /\ env' = [cleaner |-> outcome, dbUp |-> dbUp,
               key_free |-> h.data.timestamp_utc \notin DOMAIN energy_raw]
    /\ req' = [NoRequest EXCEPT !.data = h.data]
    /\ auth' = [NoAuth EXCEPT !.admitted = TRUE, !.code = 200,
                              !.mac_address = h.auth_info.mac_address,
                              !.method = h.auth_info.method]
    /\ pc' = "idle"
    /\ waiting' = InFlight (-) SetToBag({h})
    /\ UNCHANGED <<COMPATIBILITY_MODE, DEFAULT_ALLOWED_IPS, registry, now>>
    /\ UNCHANGED agentVars

NextOver(Macs, Certs, IPs, Datas, Outcomes) ==
    \/ \E mac \in AdminMacs : AdminAdd(mac)
    \/ \E mac \in AdminMacs : AdminRemove(mac)
    \/ \E mac \in Macs, cert \in Certs, ip \in IPs, data \in Datas :
          IngestRequest(mac, cert, ip, data)
    \/ \E h \in BagToSet(InFlight), outcome \in Outcomes, dbUp \in BOOLEAN :
          IngestFinish(h, outcome, dbUp)

\* The pipeline in full (every sample, every cleaner outcome), behind a gate
\* exercised with one request of each kind
Next ==
    NextOver({MacA_canonical, NoneHdr}, {CertA_valid, CertA_wrong_key, NoneHdr},
             {"10.0.0.1"}, Samples, CleanerOutcomes)

Spec == Init /\ [][Next]_vars

\* The gate in full (every header spelling, every certificate, every caller
\* address), in front of a pipeline exercised with one sample
NextAuth ==
    NextOver(MacHeaders, Certificates, ClientIPs,
             {[timestamp_utc |-> "t0", device_id |-> "dev1"]},
             {"ok", "timeout"})

SpecAuth == Init /\ [][NextAuth]_vars

-----------------------------------------------------------------------------
(* Vocabulary of the properties *)

\* this step handled the arrival of a request (the gate ran)
GateRan == now' = now + 1

\* the request of the primed state carries both authentication headers
FullAuthHeaders(r) == Truthy(r.mac) /\ Truthy(r.cert)

\* the registry entry the header identifier names, in a given registry
EntryActive(reg, mac) ==
    _normalize_mac(mac) \in DOMAIN reg /\ reg[_normalize_mac(mac)].is_active

ExpectedCertificate(mac) ==
    hmac_hexdigest(AUTH_SECRET_KEY, _normalize_mac(mac))

\* the handler of req ran to its end in the last step
Finished == pc = "idle" /\ env.cleaner # ""

\* a waiting handler runs to its end in this step
FinishStep == now' = now /\ InFlight' # InFlight

\* the database accepted (would accept) the raw INSERT of the last request
RawStoreOk == env.dbUp /\ env.key_free

SampleKey == req.data.timestamp_utc

HasRow(tbl, data) ==
    data.timestamp_utc \in DOMAIN tbl /\ tbl[data.timestamp_utc] = data.device_id

-----------------------------------------------------------------------------
(* Properties of the ingestion pipeline (specification Spec) *)

\* C1: every admitted request whose cleaning call fails (non-2xx, connection
\* error, timeout, a response without a usable cleaned_data record), the raw
\* store accepting the raw record, is answered 200 partial_success with the
\* failure reason; its raw record is committed and it has no cleaned record.
C1_CleaningFailureIsPartialSuccess ==
    (Finished /\ env.cleaner # "ok" /\ RawStoreOk) =>
        /\ resp.code = 200
        /\ resp.status = "partial_success"
        /\ resp.reason # ""
        /\ HasRow(energy_raw, req.data)
        /\ SampleKey \notin DOMAIN energy_cleaned

\* C1, the part the code keeps: a cleaning failure that raises before the
\* cleaned record is added to the session is answered partial_success, with
\* the raw record committed and no cleaned record.
C1_EarlyCleaningFailureIsPartialSuccess ==
    (Finished /\ env.cleaner \notin {"ok", "unstorable"} /\ RawStoreOk) =>
        /\ resp.code = 200
        /\ resp.status = "partial_success"
        /\ resp.reason = CleanerException(env.cleaner)
        /\ HasRow(energy_raw, req.data)
        /\ SampleKey \notin DOMAIN energy_cleaned

\* C2: if persisting the raw record fails (database down, or the key already
\* taken), whatever the cleaner did, ingest answers 500 after rolling back and
\* the request leaves both stores as they were, with no row under a key that
\* was free; and a request answered success or partial_success always has its
\* raw record in the raw store.
C2_RawFailureIsFailure ==
    /\ [][(FinishStep /\ ~(env'.dbUp /\ env'.key_free)) =>
            /\ resp'.code = 500
            /\ session' = EmptySession
            /\ energy_raw' = energy_raw
            /\ energy_cleaned' = energy_cleaned
            /\ (env'.key_free =>
                   /\ req'.data.timestamp_utc \notin DOMAIN energy_raw'
                   /\ req'.data.timestamp_utc \notin DOMAIN energy_cleaned')]_vars
    /\ [](resp.status \in {"success", "partial_success"} =>
            HasRow(energy_raw, req.data))

\* C2 witness: the cleaner succeeded, the database was down, the answer is 500
\* and neither store holds a row
C2_Witness ==
    /\ Finished
    /\ env.cleaner = "ok" /\ ~env.dbUp /\ env.key_free
    /\ resp.code = 500
    /\ energy_raw = << >> /\ energy_cleaned = << >>

\* C3: an admitted request for which the raw store is writable and the cleaner
\* returns 200 with a cleaned_data record is answered success, and afterwards
\* the raw and the cleaned record keyed by the sample's timestamp both exist.
C3_CleanedAndRawOnSuccess ==
    (Finished /\ env.cleaner = "ok" /\ RawStoreOk) =>
        /\ resp.code = 200
        /\ resp.status = "success"
        /\ HasRow(energy_raw, req.data)
        /\ HasRow(energy_cleaned, req.data)

C3_Witness ==
    /\ Finished
    /\ env.cleaner = "ok" /\ RawStoreOk
    /\ resp.status = "success"
    /\ HasRow(energy_raw, req.data) /\ HasRow(energy_cleaned, req.data)

\* C7: whenever the gate rejects an /ingest request (401 or 403), nothing is
\* persisted for it: the raw store, the cleaned store and the device registry
\* are exactly as they were before the request.
C7_RejectionPersistsNothing ==
    [][(GateRan /\ auth'.code \in {401, 403}) =>
          /\ energy_raw' = energy_raw
          /\ energy_cleaned' = energy_cleaned
          /\ registry' = registry]_vars

-----------------------------------------------------------------------------
(* Properties of the gate (specification SpecAuth) *)

\* C4: in full-auth mode a request whose identifier is an active entry and
\* whose certificate is HMAC(secret, normalized identifier) is admitted and
\* sets the entry's last_seen; once the entry's active flag is cleared, the
\* request is rejected 403 "Device not authorized", never 401, whatever the
\* certificate.
C4_AdmittedThenDeactivated ==
    [][(GateRan /\ FullAuthHeaders(req')) =>
          LET m == _normalize_mac(req'.mac) IN
          /\ (EntryActive(registry, req'.mac)
                /\ req'.cert = ExpectedCertificate(req'.mac)) =>
                 /\ auth'.admitted
                 /\ auth'.method = "full_auth"
                 /\ registry'[m].last_seen = now'
          /\ (m \in DOMAIN registry /\ ~registry[m].is_active) =>
                 /\ ~auth'.admitted
                 /\ auth'.code = 403
                 /\ auth'.detail = "Device not authorized"]_vars

\* C4 witness: an entry that was admitted (last_seen set) and then deactivated
\* is presented with its correct certificate and rejected 403
C4_Witness ==
    /\ _normalize_mac(req.mac) \in DOMAIN registry
    /\ ~registry[_normalize_mac(req.mac)].is_active
    /\ registry[_normalize_mac(req.mac)].last_seen > 0
    /\ req.cert = ExpectedCertificate(req.mac)
    /\ auth.code = 403
    /\ now > registry[_normalize_mac(req.mac)].last_seen

\* C5: in full-auth mode an active identifier with a certificate other than
\* the expected HMAC is rejected 401 "Invalid device certificate", and an
\* absent or inactive identifier 403 "Device not authorized": two distinct
\* statuses and reasons.
C5_WrongCertificateIsDistinct ==
    [][(GateRan /\ FullAuthHeaders(req')) =>
          /\ (EntryActive(registry, req'.mac)
                /\ req'.cert # ExpectedCertificate(req'.mac)) =>
                 (auth'.code = 401 /\ auth'.detail = "Invalid device certificate")
          /\ ~EntryActive(registry, req'.mac) =>
                 (auth'.code = 403 /\ auth'.detail = "Device not authorized")]_vars

C5_Witness ==
    /\ FullAuthHeaders(req)
    /\ EntryActive(registry, req.mac)
    /\ req.cert # ExpectedCertificate(req.mac)
    /\ auth.code = 401
    /\ auth.detail = "Invalid device certificate"

\* C6: an admission with method full_auth implies that the normalized
\* identifier was an active registry entry when checked and that the supplied
\* certificate equals the one recomputed from the shared secret; a correct
\* certificate for an absent or inactive identifier never yields admission.
C6_FullAuthNeedsRegistryAndCertificate ==
    [][GateRan =>
          /\ (auth'.admitted /\ auth'.method = "full_auth") =>
                 /\ EntryActive(registry, req'.mac)
                 /\ req'.cert = ExpectedCertificate(req'.mac)
          /\ (Truthy(req'.mac) /\ req'.cert = ExpectedCertificate(req'.mac)
                /\ ~EntryActive(registry, req'.mac)) =>
                 ~auth'.admitted]_vars

\* C6 witness: the correct certificate of a device that is not registered,
\* while another device is, is turned away
C6_Witness ==
    /\ req.mac = MacB_canonical /\ req.cert = CertB_valid
    /\ EntryActive(registry, MacA_canonical)
    /\ ~auth.admitted /\ auth.code = 403

\* C8: with compatibility mode enabled a request without authentication
\* headers is always admitted as legacy-<caller address>: by ip_whitelist when
\* the allow-list is non-empty and holds the address, by legacy_mode otherwise
\* (also with no allow-list); the registry is not modified.
C8_CompatibilityAdmitsLegacy ==
    [][(GateRan /\ COMPATIBILITY_MODE /\ ~Truthy(req'.mac) /\ ~Truthy(req'.cert)) =>
          /\ auth'.admitted
          /\ auth'.mac_address = <<"legacy-", req'.ip>>
          /\ auth'.method =
                IF DEFAULT_ALLOWED_IPS # {} /\ req'.ip \in DEFAULT_ALLOWED_IPS
                THEN "ip_whitelist" ELSE "legacy_mode"
          /\ registry' = registry]_vars

\* C8 witness: an allow-list is configured, the caller is not on it, and the
\* request is admitted by the default
C8_Witness ==
    /\ COMPATIBILITY_MODE
    /\ req.mac = NoneHdr /\ req.cert = NoneHdr
    /\ DEFAULT_ALLOWED_IPS # {} /\ req.ip \in ClientIPs \ DEFAULT_ALLOWED_IPS
    /\ auth.admitted /\ auth.method = "legacy_mode"
    /\ auth.mac_address = <<"legacy-", req.ip>>

\* C9: with compatibility mode disabled every request lacking the
\* authentication headers is rejected 401 "Missing authentication headers.
\* Please upgrade your agent.", whatever the caller's address and allow-list.
C9_StrictRejectsLegacy ==
    [][(GateRan /\ ~COMPATIBILITY_MODE /\ ~FullAuthHeaders(req')) =>
          /\ ~auth'.admitted
          /\ auth'.code = 401
          /\ auth'.detail =
                "Missing authentication headers. Please upgrade your agent."
          /\ pc' = "idle"
          /\ resp'.code = 401]_vars

\* C9 witness: strict mode, the caller is on the allow-list, and is rejected
C9_Witness ==
    /\ ~COMPATIBILITY_MODE
    /\ req.mac = NoneHdr /\ req.cert = NoneHdr
    /\ req.ip \in DEFAULT_ALLOWED_IPS
    /\ auth.code = 401 /\ resp.code = 401

\* the spellings of one character that differ only in letter case or in the
\* separator used
CharSpellings(c) ==
    CASE c \in {"a", "A"} -> {"a", "A"}
      [] c \in {"b", "B"} -> {"b", "B"}
      [] c \in {"-", ":"} -> {"-", ":"}
      [] OTHER            -> {c}

\* the identifiers that differ from h only in letter case or in using '-'
\* instead of ':' as separator
RECURSIVE Spellings(_)
Spellings(h) ==
    IF h = <<>> THEN {<<>>}
    ELSE {<<c>> \o t : c \in CharSpellings(Head(h)), t \in Spellings(Tail(h))}

GateDecision(mac, cert, ip) ==
    LET a == verify_device_auth_compatible(registry, mac, cert, ip, now,
                 COMPATIBILITY_MODE, DEFAULT_ALLOWED_IPS)
    IN  <<a.admitted, a.code, a.detail, a.method>>

\* C10: the gate's decision does not depend on the spelling of the identifier:
\* two header identifiers that differ only in letter case or in '-' for ':',
\* presented with the certificate computed over the normalized identifier,
\* get the same registry lookup, pass the certificate comparison alike and
\* get the same decision; and normalize is idempotent.
C10_SpellingDoesNotMatter ==
    \A h \in MacStrings : \A h2 \in Spellings(h) :
        LET cert == generate_device_certificate(_normalize_mac(h), AUTH_SECRET_KEY) IN
        /\ _normalize_mac(h2) = _normalize_mac(h)
        /\ _normalize_mac(_normalize_mac(h2)) = _normalize_mac(h2)
        /\ is_device_authorized(registry, h2, now).ok
              = is_device_authorized(registry, h, now).ok
        /\ verify_certificate(h2, cert) /\ verify_certificate(h, cert)
        /\ \A ip \in ClientIPs :
              /\ GateDecision(h2, cert, ip) = GateDecision(h, cert, ip)
              /\ EntryActive(registry, h) => GateDecision(h2, cert, ip)[1]

\* C10 witness: the device registered under one spelling is admitted when it
\* presents another spelling with the certificate of the normalized identifier
C10_Witness ==
    /\ req.mac = MacA_lower_dash
    /\ req.mac \notin DOMAIN registry
    /\ req.cert = generate_device_certificate(_normalize_mac(req.mac), AUTH_SECRET_KEY)
    /\ auth.admitted /\ auth.method = "full_auth"
    /\ registry[_normalize_mac(req.mac)].last_seen = now

-----------------------------------------------------------------------------
(* Further properties of the server *)

\* C16: within ingest the commit of the raw record completes before the
\* cleaning collaborator is invoked: while the POST to the cleaner is in
\* flight the request's session holds no uncommitted raw write, and the raw
\* record is already in the raw store.
C16_RawCommittedBeforeCleaning ==
    pc = "cleaning" =>
        /\ \A o \in session.new : o.table # "energy_raw"
        /\ HasRow(energy_raw, req.data)

\* C17: last_seen of a registry entry changes only in a step in which the gate
\* admits a request by full_auth: a full-auth request that is rejected (403 or
\* 401) leaves it unchanged, and so does a compatibility-mode admission.
C17_LastSeenOnlyOnAdmission ==
    [][\A m \in DOMAIN registry :
          (m \in DOMAIN registry' /\ registry'[m].last_seen # registry[m].last_seen)
             => (GateRan /\ auth'.admitted /\ auth'.method = "full_auth"
                   /\ _normalize_mac(req'.mac) = m)]_vars

\* C18: a request carrying both headers is decided by the full-auth checks
\* alone: with an unregistered or inactive identifier or a wrong certificate it
\* is rejected also when compatibility mode is on and the caller's address is
\* on the allow-list; it is never admitted by ip_whitelist or legacy_mode.
C18_FullAuthTakesPrecedence ==
    [][(GateRan /\ FullAuthHeaders(req')) =>
          /\ auth'.method \notin {"ip_whitelist", "legacy_mode"}
          /\ (~EntryActive(registry, req'.mac)
                \/ req'.cert # ExpectedCertificate(req'.mac)) =>
                 (~auth'.admitted /\ auth'.code \in {401, 403}
                    /\ pc' = "idle" /\ resp'.code = auth'.code)
          /\ auth'.admitted =>
                 (auth'.method = "full_auth" /\ auth'.mac_address = req'.mac)]_vars

\* C18 witness: compatibility mode is on, the caller is on the allow-list, and
\* the request with both headers and a wrong certificate is rejected
C18_Witness ==
    /\ COMPATIBILITY_MODE
    /\ req.ip \in DEFAULT_ALLOWED_IPS
    /\ FullAuthHeaders(req)
    /\ req.cert # ExpectedCertificate(req.mac)
    /\ ~auth.admitted /\ auth.code \in {401, 403}
    /\ resp.code = auth.code

-----------------------------------------------------------------------------
(* agent_with_auth.py: the monitoring agent.                                  *)
(* A row of the offline buffer is the sample that process_and_send_data       *)
(* built, identified by its timestamp; timestamps are the numbers 1, 2, ...   *)
(* in the order in which the samples were built.  Metrics are whole numbers   *)
(* of the unit in which CHANGE_THRESHOLD is expressed.  A time of day is the  *)
(* number of seconds since midnight.                                          *)

\* agent_with_auth.py:22
FALLBACK_TO_CSV == TRUE

\* agent_with_auth.py:334
CHANGE_THRESHOLD == 5

\* agent_with_auth.py:271: rows that trigger the write of a batch file
BatchSize == 50

HM(h, m) == (h * 60 + m) * 60

class_periods ==
    << <<HM(8, 10), HM(9, 0)>>,   <<HM(9, 10), HM(10, 0)>>,
       <<HM(10, 10), HM(11, 0)>>, <<HM(11, 10), HM(12, 0)>>,
       <<HM(13, 25), HM(14, 15)>>, <<HM(14, 20), HM(15, 10)>>,
       <<HM(15, 20), HM(16, 10)>>, <<HM(16, 15), HM(17, 5)>> >>

\* faulty variant: the bounds of a period are excluded
is_class_time_exclusive(t) ==
    \E i \in 1..Len(class_periods) :
        class_periods[i][1] < t /\ t < class_periods[i][2]

\* is_class_time, with the time of day that datetime.now().time() returned
is_class_time(t) ==
    \E i \in 1..Len(class_periods) :
        class_periods[i][1] <= t /\ t <= class_periods[i][2]

Abs(x) == IF x < 0 THEN -x ELSE x

\* faulty variant: a difference equal to the threshold counts as a change
has_significant_change_inclusive(new, old) ==
    LET changes == {k \in DOMAIN new : Abs(new[k] - old[k]) >= CHANGE_THRESHOLD}
    IN  changes # {}

has_significant_change(new, old) ==
    LET changes == {k \in DOMAIN new : Abs(new[k] - old[k]) > CHANGE_THRESHOLD}
    IN  changes # {}

\* what requests.post and the handling of its response can come to
\*   "200"             status 200 and a body the agent can read
\*   "200_unreadable"  status 200, but response.json() or the display of the
\*                     fingerprint annotation raises
\*   "401", "403", "500"  these statuses (500 stands for any other status)
\*   "ConnectionError", "Timeout", "Exception"  requests.post raises
SendResults ==
    {"200", "200_unreadable", "401", "403", "500", "ConnectionError",
     "Timeout", "Exception"}

\* send_to_api: TRUE exactly when the sample was delivered
send_to_api(result) ==
    CASE result = "200" -> TRUE
      [] result = "200_unreadable" -> FALSE
      [] result = "401" -> FALSE
      [] result = "403" -> FALSE
      [] result = "ConnectionError" -> FALSE
      [] result = "Timeout" -> FALSE
      [] result = "Exception" -> FALSE
      [] OTHER -> FALSE

\* what open(filename, "w") and the writes to the file can come to:
\*   "ok"           the file is written to its end and closed
\*   "open_fails"   open raises, the file is left as it was
\*   "write_fails"  the file has been truncated and a write (or DictWriter,
\*                  over a row with a key the last row lacks) raises after
\*                  the first `rows` rows; the with-block closes the file,
\*                  which keeps the header and these rows
\* and where the operator's interrupt (KeyboardInterrupt) can reach the call:
\*   "interrupted_before_append"  before line 270: nothing has been done
\*   "interrupted_before_open"    after the append, before open (lines
\*                                271-273) or, no flush being due, before the
\*                                return
\*   "interrupted"                in the with-block after the first `rows`
\*                                rows, the file being closed with these; with
\*                                `rows` the length of the buffer, after the
\*                                with-block while line 277 prints: the file
\*                                is written to its end
\*   "interrupted_before_count"   after line 278 emptied the buffer, before
\*                                line 279
\*   "interrupted_after_count"    after line 279, before the return
Write(kind, rows) == [kind |-> kind, rows |-> rows]

InterruptKinds ==
    {"interrupted_before_append", "interrupted_before_open", "interrupted",
     "interrupted_before_count", "interrupted_after_count"}

IsInterrupt(write) == write.kind \in InterruptKinds

NoWrite == Write("", 0)

WriteOk == Write("ok", 0)

\* rows that may have reached the file when a write fails
PartialRows == {0, 10}

WriteResults ==
    {WriteOk, Write("open_fails", 0)}
       \cup {Write("write_fails", n) : n \in PartialRows}

BatchFile(rows, complete) == [rows |-> rows, complete |-> complete]

\* faulty variant: the batch is written when the buffer holds more than 50 rows
save_to_csv_late(buf, fc, fs, row, write) ==
    LET appended == Append(buf, row) IN
    IF Len(appended) > BatchSize
    THEN CASE write.kind = "ok" ->
                [raised |-> FALSE, data_buffer |-> << >>, file_count |-> fc + 1,
                 files |-> (fc :> BatchFile(appended, TRUE)) @@ fs,
                 flush |-> TRUE]
           [] write.kind = "write_fails" ->
                [raised |-> TRUE, data_buffer |-> appended, file_count |-> fc,
                 files |-> (fc :> BatchFile(SubSeq(appended, 1, write.rows),
                                            FALSE)) @@ fs,
                 flush |-> TRUE]
           [] OTHER ->
                [raised |-> TRUE, data_buffer |-> appended, file_count |-> fc,
                 files |-> fs, flush |-> TRUE]
    ELSE [raised |-> FALSE, data_buffer |-> appended, file_count |-> fc,
          files |-> fs, flush |-> FALSE]

\* faulty variant: the buffer is emptied and the counter advanced before the
\* file is written
save_to_csv_clear_first(buf, fc, fs, row, write) ==
    LET appended == Append(buf, row) IN
    IF Len(appended) >= BatchSize
    THEN CASE write.kind = "ok" ->
                [raised |-> FALSE, data_buffer |-> << >>, file_count |-> fc + 1,
                 files |-> (fc :> BatchFile(appended, TRUE)) @@ fs,
                 flush |-> TRUE]
           [] write.kind = "write_fails" ->
                [raised |-> TRUE, data_buffer |-> << >>, file_count |-> fc + 1,
                 files |-> (fc :> BatchFile(SubSeq(appended, 1, write.rows),
                                            FALSE)) @@ fs,
                 flush |-> TRUE]
           [] OTHER ->
                [raised |-> TRUE, data_buffer |-> << >>, file_count |-> fc + 1,
                 files |-> fs, flush |-> TRUE]
    ELSE [raised |-> FALSE, data_buffer |-> appended, file_count |-> fc,
          files |-> fs, flush |-> FALSE]

\* save_to_csv(row); fs is the directory, write the fate of the call: of the
\* file write, if one is due, and of the operator's interrupt
save_to_csv(buf, fc, fs, row, write) ==
    LET appended == Append(buf, row)
        written == (fc :> BatchFile(appended, TRUE)) @@ fs
    IN
    IF write.kind = "interrupted_before_append"
    THEN [raised |-> TRUE, data_buffer |-> buf, file_count |-> fc,
          files |-> fs, flush |-> FALSE]
    ELSE IF Len(appended) < BatchSize \/ write.kind = "interrupted_before_open"
    THEN [raised |-> IsInterrupt(write), data_buffer |-> appended,
          file_count |-> fc, files |-> fs, flush |-> FALSE]
    ELSE CASE write.kind = "ok" ->
                [raised |-> FALSE, data_buffer |-> << >>, file_count |-> fc + 1,
                 files |-> written, flush |-> TRUE]
           [] write.kind = "write_fails" ->
                [raised |-> TRUE, data_buffer |-> appended, file_count |-> fc,
                 files |-> (fc :> BatchFile(SubSeq(appended, 1, write.rows),
                                            FALSE)) @@ fs,
                 flush |-> TRUE]
           [] write.kind = "interrupted" ->
                [raised |-> TRUE, data_buffer |-> appended, file_count |-> fc,
                 files |-> IF write.rows >= Len(appended)
                           THEN written
                           ELSE (fc :> BatchFile(SubSeq(appended, 1, write.rows),
                                                 FALSE)) @@ fs,
                 flush |-> TRUE]
           [] write.kind = "interrupted_before_count" ->
                [raised |-> TRUE, data_buffer |-> << >>, file_count |-> fc,
                 files |-> written, flush |-> TRUE]
           [] write.kind = "interrupted_after_count" ->
                [raised |-> TRUE, data_buffer |-> << >>, file_count |-> fc + 1,
                 files |-> written, flush |-> TRUE]
           [] OTHER ->
                [raised |-> TRUE, data_buffer |-> appended, file_count |-> fc,
                 files |-> fs, flush |-> TRUE]

\* faulty variant: a sample rejected by the server (401, 403) is dropped
process_and_send_data_drop_rejected(buf, fc, fs, row, result, write) ==
    LET api_success == send_to_api(result) IN
    IF ~api_success /\ FALLBACK_TO_CSV /\ result \notin {"401", "403"}
    THEN LET r == save_to_csv(buf, fc, fs, row, write)
         IN  [api_success |-> api_success, saved |-> TRUE, raised |-> r.raised,
              data_buffer |-> r.data_buffer, file_count |-> r.file_count,
              files |-> r.files, flush |-> r.flush]
    ELSE [api_success |-> api_success, saved |-> FALSE, raised |-> FALSE,
          data_buffer |-> buf, file_count |-> fc, files |-> fs,
          flush |-> FALSE]

\* process_and_send_data: builds the sample (row), sends it, buffers it when
\* the send failed; raised: save_to_csv raised out of the function
process_and_send_data(buf, fc, fs, row, result, write) ==
    LET api_success == send_to_api(result) IN
    IF ~api_success /\ FALLBACK_TO_CSV
    THEN LET r == save_to_csv(buf, fc, fs, row, write)
         IN  [api_success |-> api_success, saved |-> TRUE, raised |-> r.raised,
              data_buffer |-> r.data_buffer, file_count |-> r.file_count,
              files |-> r.files, flush |-> r.flush]
    ELSE [api_success |-> api_success, saved |-> FALSE, raised |-> FALSE,
          data_buffer |-> buf, file_count |-> fc, files |-> fs,
          flush |-> FALSE]

-----------------------------------------------------------------------------
(* The agent's processes: the loop of main() and the input listeners *)

\* loop iterations of a behaviour in which the sampling decision is explored
MaxCycles == 3

\* loop iterations of a behaviour in which the offline buffer is filled
MaxTicks == 101

\* restarts of the agent process in a behaviour
MaxRestarts == 1

\* main(), lines 419-428: the triggers are evaluated at time of day t
Evaluate(t, limit) ==
    /\ agent_pc = "evaluate"
    /\ ticks < limit
    /\ ticks' = ticks + 1
    /\ LET in_class == is_class_time(t) IN
       /\ cycle' = [NoCycle EXCEPT !.time = t, !.in_class = in_class,
                                   !.should_grab = in_class \/ user_active]
       /\ agent_pc' = IF in_class THEN "grab"
                      ELSE IF user_active THEN "reset_flag"
                      ELSE "sleep"
    /\ UNCHANGED <<user_active, previous_data, data_buffer, file_count, files,
                   built, runs>>
    /\ UNCHANGED serverVars

\* main(), line 428: user_active = False, after the flag was read as set
ResetFlag ==
    /\ agent_pc = "reset_flag"
    /\ user_active' = FALSE
    /\ agent_pc' = "grab"
    /\ UNCHANGED <<previous_data, data_buffer, file_count, files, cycle, ticks,
                   built, runs>>
    /\ UNCHANGED serverVars

\* main(), lines 430-445, up to requests.post (line 208): the gating vector
\* new is measured; if it differs significantly from previous_data the sample
\* is built and posted to the server, and the loop waits for the answer
Grab(new) ==
    /\ agent_pc = "grab"
    /\ IF has_significant_change(new, previous_data)
       THEN /\ built' = built + 1
            /\ cycle' = [cycle EXCEPT !.new_data = new, !.significant = TRUE,
                                      !.timestamp = built + 1]
            /\ agent_pc' = "send"
       ELSE /\ cycle' = [cycle EXCEPT !.new_data = new]
            /\ agent_pc' = "sleep"
            /\ UNCHANGED built
    /\ UNCHANGED <<user_active, previous_data, data_buffer, file_count, files,
                   ticks, runs>>
    /\ UNCHANGED serverVars

\* main(), lines 445-446, from the return of requests.post: the server or the
\* network answers with result; the sample is buffered when the send failed
\* (write is the fate of the call of save_to_csv), and previous_data is
\* replaced.  An exception of save_to_csv leaves process_and_send_data before
\* the assignment to previous_data and is caught at line 453.  The operator's
\* interrupt ends the loop (line 450) wherever it arrives: in save_to_csv,
\* or, the sample delivered, before line 446.
Send(result, write) ==
    /\ agent_pc = "send"
    /\ LET r == process_and_send_data(data_buffer, file_count, files,
                                      [timestamp |-> cycle.timestamp], result,
                                      write)
           interrupted == IsInterrupt(write)
           raised == r.raised \/ interrupted
       IN  /\ data_buffer' = r.data_buffer
           /\ file_count' = r.file_count
           /\ files' = r.files
           /\ previous_data' = IF raised THEN previous_data ELSE cycle.new_data
           /\ cycle' = [cycle EXCEPT !.result = result,
                           !.write = IF r.saved /\ (r.flush \/ interrupted)
                                     THEN write ELSE NoWrite,
                           !.api_success = r.api_success,
                           !.raised = raised]
           /\ runs' = [runs EXCEPT
                           !.saves = @ + (IF r.saved THEN 1 ELSE 0),
                           !.failed_writes = @ + (IF r.raised THEN 1 ELSE 0)]
           /\ agent_pc' = IF interrupted THEN "interrupted" ELSE "sleep"
    /\ UNCHANGED <<user_active, ticks, built>>
    /\ UNCHANGED serverVars

\* main(), line 448 or 453: time.sleep(60), then the next iteration
Sleep ==
    /\ agent_pc = "sleep"
    /\ agent_pc' = "evaluate"
    /\ UNCHANGED <<user_active, previous_data, data_buffer, file_count, files,
                   cycle, ticks, built, runs>>
    /\ UNCHANGED serverVars

\* the listener thread: a click or a key press.  late_event records that the
\* flag was set after the loop read it and before the loop reset it
on_event ==
    /\ user_active' = TRUE
    /\ cycle' = [cycle EXCEPT !.late_event = @ \/ agent_pc = "reset_flag"]
    /\ UNCHANGED <<previous_data, data_buffer, file_count, files, agent_pc,
                   ticks, built, runs>>
    /\ UNCHANGED serverVars

\* the agent process is stopped and started again: the module-level
\* assignments run again, the directory agent_logs is as it was left
Restart ==
    /\ runs.restarts < MaxRestarts
    /\ user_active' = FALSE
    /\ previous_data' = ZeroData
    /\ data_buffer' = << >>
    /\ file_count' = 0
    /\ agent_pc' = "evaluate"
    /\ cycle' = NoCycle
    /\ runs' = [saves |-> 0, failed_writes |-> 0, restarts |-> runs.restarts + 1]
    /\ UNCHANGED <<files, ticks, built>>
    /\ UNCHANGED serverVars

\* the server's configuration is of no matter to the agent's own state
InitAgentAlone ==
    /\ Init
    /\ COMPATIBILITY_MODE
    /\ DEFAULT_ALLOWED_IPS = {}

\* times of day at which the loop may wake up: the second before the first
\* period, its first and its last instant, and the second after it
Instants == {HM(8, 10) - 1, HM(8, 10), HM(9, 0), HM(9, 0) + 1}

\* gating vectors: no load, one metric at or just above the threshold, every
\* metric at the threshold
GatingVectors ==
    {ZeroData,
     [ZeroData EXCEPT !.cpu = 5],
     [ZeroData EXCEPT !.cpu = 6],
     [ZeroData EXCEPT !.disk_write = 6],
     [cpu |-> 5, gpu |-> 5, memory |-> 5, disk_read |-> 5, disk_write |-> 5]}

\* the sampling decision in full, few samples
NextAgent ==
    \/ \E t \in Instants : Evaluate(t, MaxCycles)
    \/ ResetFlag
    \/ \E new \in GatingVectors : Grab(new)
    \/ \E result \in SendResults : Send(result, WriteOk)
    \/ Sleep
    \/ on_event

SpecAgent == InitAgentAlone /\ [][NextAgent]_vars

\* a load that changes by more than the threshold from tick to tick
Alternate(old) ==
    IF old.cpu = 0 THEN [ZeroData EXCEPT !.cpu = 10] ELSE ZeroData

\* the server answers the samples with these timestamps in every way, the
\* others time out
ResultsAt(timestamp) ==
    IF timestamp \in {2, 50} THEN SendResults ELSE {"Timeout"}

\* the write of a batch file may fail at the first attempt and at the retry
WritesAt(rows) ==
    IF rows \in {BatchSize, BatchSize + 1} THEN WriteResults ELSE {WriteOk}

\* the offline buffer in full: a lecture, the load changing at every tick
NextBuffer ==
    \/ Evaluate(HM(8, 30), MaxTicks)
    \/ Grab(Alternate(previous_data))
    \/ \E result \in ResultsAt(cycle.timestamp),
          write \in WritesAt(Len(data_buffer) + 1) :
           Send(result, write)
    \/ Sleep

SpecBuffer == InitAgentAlone /\ [][NextBuffer]_vars

\* the offline buffer across a restart of the agent, the server unreachable
NextRestart ==
    \/ Evaluate(HM(8, 30), MaxTicks)
    \/ Grab(Alternate(previous_data))
    \/ Send("Timeout", WriteOk)
    \/ Sleep
    \/ Restart

SpecRestart == InitAgentAlone /\ [][NextRestart]_vars

-----------------------------------------------------------------------------
(* Properties of the offline buffer (specifications SpecBuffer, SpecRestart) *)

Range(seq) == {seq[i] : i \in 1..Len(seq)}

\* the send of the sample built in this cycle returns in this step and
\* process_and_send_data runs to its end or raises
SampleHandled == agent_pc = "send" /\ cycle'.result # ""

\* the rows of the batch files that were written to their end
Flushed(fs) == UNION {Range(fs[f].rows) : f \in {g \in DOMAIN fs : fs[g].complete}}

\* the rows the offline buffer holds, in memory or in a batch file
Stored == Range(data_buffer) \cup Flushed(files)

\* C11: with fallback buffering enabled no built sample is lost.  In a step in
\* which process_and_send_data handles a sample: the sample counts as
\* delivered only for a 200 response, and then the buffer and the batch files
\* are as before; for every other outcome (401, 403, another status, a
\* connection error, a timeout, another exception) the sample is appended to
\* the accumulator, and afterwards it is in the accumulator or in a batch file
\* written to its end.  Within a run of the agent every sample that was not
\* delivered stays stored.
C11_SentOrBuffered ==
    /\ [][SampleHandled =>
            LET row == [timestamp |-> cycle.timestamp]
                appended == Append(data_buffer, row)
            IN  /\ cycle'.api_success <=> cycle'.result = "200"
                /\ cycle'.api_success =>
                      /\ data_buffer' = data_buffer
                      /\ files' = files
                      /\ file_count' = file_count
                      /\ runs'.saves = runs.saves
                /\ ~cycle'.api_success =>
                      /\ runs'.saves = runs.saves + 1
                      /\ \/ data_buffer' = appended
                         \/ /\ data_buffer' = << >>
                            /\ files'[file_count] = BatchFile(appended, TRUE)
                      /\ row \in Range(data_buffer') \cup Flushed(files')]_vars
    /\ [](runs.restarts = 0 => Cardinality(Stored) = runs.saves)

\* C11 witness: one sample was delivered and never buffered, the last one
\* timed out and completed a batch, and is now in the batch file
C11_Witness ==
    /\ runs.saves < built
    /\ cycle.significant /\ ~cycle.api_success /\ cycle.write = WriteOk
    /\ agent_pc = "sleep"
    /\ data_buffer = << >>
    /\ [timestamp |-> cycle.timestamp] \in Flushed(files)
    /\ [timestamp |-> 2] \notin Stored

\* C12: starting from an empty accumulator, as long as no write of a batch
\* file has failed, after n calls of save_to_csv there are n div 50 batch files
\* and n mod 50 rows in the accumulator: after 49 calls no file and 49 rows,
\* after 50 calls one file and no row; between calls the accumulator never
\* holds 50 rows or more.
C12_BatchEveryFifty ==
    (runs.restarts = 0 /\ runs.failed_writes = 0) =>
        /\ DOMAIN files = 0..(file_count - 1)
        /\ file_count = runs.saves \div BatchSize
        /\ \A f \in DOMAIN files : files[f].complete
        /\ Len(data_buffer) = runs.saves % BatchSize
        /\ Len(data_buffer) < BatchSize

\* C12 witness: the 50th call has just written the first batch file
C12_Witness ==
    /\ runs.saves = BatchSize /\ runs.failed_writes = 0
    /\ DOMAIN files = {0} /\ Len(files[0].rows) = BatchSize
    /\ data_buffer = << >>

\* C13: a flush is all or nothing.  If the write of the batch file fails, the
\* accumulator holds every row it held and the new one, the batch counter has
\* not advanced and no batch file written to its end has changed; and every
\* call of save_to_csv that finds 49 rows or more in the accumulator attempts
\* the flush (again).
C13_FailedFlushKeepsRows ==
    [][SampleHandled =>
          /\ cycle'.write.kind \in {"open_fails", "write_fails"} =>
                /\ cycle'.raised
                /\ data_buffer' = Append(data_buffer,
                                         [timestamp |-> cycle.timestamp])
                /\ file_count' = file_count
                /\ \A f \in DOMAIN files :
                      files[f].complete => files'[f] = files[f]
          /\ (~cycle'.api_success /\ Len(data_buffer) >= BatchSize - 1) =>
                cycle'.write \in WriteResults]_vars

\* C13 witness: a write failed, the next call wrote the batch with all rows
C13_Witness ==
    /\ runs.failed_writes = 1
    /\ cycle.significant /\ cycle.write = WriteOk /\ ~cycle.raised
    /\ data_buffer = << >>
    /\ file_count = 1
    /\ files[0].complete /\ Len(files[0].rows) = BatchSize + 1

\* C14: batch files are numbered in sequence and never overwritten: over
\* appends, flushes and restarts of the agent, a batch file that was written
\* to its end is never written again.
C14_BatchFilesNeverOverwritten ==
    [][\A f \in DOMAIN files :
          files[f].complete => files'[f] = files[f]]_vars

-----------------------------------------------------------------------------
(* Properties of the sampling decision (specification SpecAgent) *)

Metrics == {"cpu", "gpu", "memory", "disk_read", "disk_write"}

\* every gating vector with each metric at 0, at the threshold or just above
AllVectors == [Metrics -> {0, 5, 6}]

\* the step of the loop that measures the gating vector and decides
GateStep ==
    agent_pc = "grab" /\ agent_pc' \in {"send", "sleep"} /\ ~cycle'.raised

\* C15: the gate compares each metric strictly against the threshold 5: a
\* change is significant exactly when at least one of cpu, gpu, memory,
\* disk_read, disk_write differs from the previous sample by more than 5; a
\* difference of exactly 5 does not count, so a sample is built and sent in a
\* cycle exactly when some metric moved by more than 5.
C15_StrictThreshold ==
    /\ [][GateStep =>
            ((built' = built + 1 /\ agent_pc' = "send") <=>
                \E k \in Metrics :
                    Abs(cycle'.new_data[k] - previous_data[k]) > 5)]_vars
    /\ [](\A new \in AllVectors :
            /\ has_significant_change(new, previous_data) <=>
                  \E k \in Metrics : Abs(new[k] - previous_data[k]) > 5
            /\ (\A k \in Metrics : Abs(new[k] - previous_data[k]) \in {0, 5})
                  => ~has_significant_change(new, previous_data))

\* C15 witness: a cycle met every metric exactly 5 above the previous sample
\* and built no sample
C15_Witness ==
    /\ agent_pc = "sleep" /\ cycle.should_grab
    /\ \A k \in Metrics : cycle.new_data[k] - previous_data[k] = 5
    /\ ~cycle.significant
    /\ built = 0 /\ cycle.result = ""

\* C19: the previous-sample snapshot is the zero vector at start, is replaced
\* by the new gating vector in every cycle judged significant, whatever became
\* of the sample (delivered, rejected, unreachable, buffered), and is left as
\* it is by every other step of the agent.
C19_SnapshotFollowsSignificantCycles ==
    /\ [][IF SampleHandled
          THEN cycle.significant /\ previous_data' = cycle.new_data
          ELSE previous_data' = previous_data]_vars
    /\ [][(GateStep /\ has_significant_change(cycle'.new_data, previous_data))
            => agent_pc' = "send"]_vars
    /\ [](ticks = 0 => previous_data = ZeroData)

\* C20: every evaluation of the triggers consumes the activity flag: the step
\* that ends an evaluation, in a scheduled window or not, leaves the flag
\* false, so that activity during a window triggers no sample after it.
C20_FlagResetOnEveryEvaluation ==
    [][(agent_pc \in {"evaluate", "reset_flag"} /\ agent_pc' \in {"grab", "sleep"})
          => ~user_active']_vars

-----------------------------------------------------------------------------
(* The gate and requests with one authentication header (specification Spec) *)

\* the request carries the identifier without the certificate, or the
\* certificate without the identifier
OneHeader(r) == Truthy(r.mac) # Truthy(r.cert)

\* C25: a request with exactly one of the two authentication headers is never
\* evaluated by full-auth: the registry is neither consulted nor changed; with
\* compatibility mode on it is admitted as legacy-<caller address> (by
\* ip_whitelist or legacy_mode), whatever the registry says about the
\* identifier; with compatibility mode off it is rejected with 401, missing
\* authentication headers.
C25_OneHeaderIsLegacy ==
    [][(GateRan /\ OneHeader(req')) =>
          /\ registry' = registry
          /\ auth'.method # "full_auth"
          /\ IF COMPATIBILITY_MODE
             THEN /\ auth'.admitted
                  /\ auth'.mac_address = <<"legacy-", req'.ip>>
                  /\ auth'.method =
                        (IF req'.ip \in DEFAULT_ALLOWED_IPS
                         THEN "ip_whitelist" ELSE "legacy_mode")
                  /\ pc' = "cleaning"
             ELSE /\ ~auth'.admitted
                  /\ auth'.code = 401
                  /\ auth'.detail =
                        "Missing authentication headers. Please upgrade your agent."
                  /\ resp'.code = 401
                  /\ pc' = "idle"]_vars

\* C25 witness: the identifier of a device that is not in the registry, sent
\* without a certificate, has been admitted under the legacy identity
C25_Witness ==
    /\ COMPATIBILITY_MODE
    /\ Truthy(req.mac) /\ ~Truthy(req.cert)
    /\ _normalize_mac(req.mac) \notin DOMAIN registry
    /\ auth.admitted /\ auth.mac_address = <<"legacy-", req.ip>>

-----------------------------------------------------------------------------
(* Further properties of the agent *)

\* C23: every batch file written to its end holds exactly 50 sample records,
\* after any sequence of appends and flush attempts, also when an earlier
\* attempt failed and the flush was retried on a later append.
C23_BatchFilesHoldFifty ==
    \A f \in DOMAIN files :
        files[f].complete => Len(files[f].rows) = BatchSize

\* the time of day lies in a configured window, bounds included
InWindow(t) ==
    \E i \in 1..Len(class_periods) :
        ~(t < class_periods[i][1]) /\ ~(t > class_periods[i][2])

\* the step of the loop that evaluates the triggers
EvaluateStep == agent_pc = "evaluate" /\ agent_pc' # "evaluate"

\* C22: a cycle collects metrics exactly when a trigger holds at evaluation:
\* the time of day lies in a configured window (start <= now <= end) or the
\* activity flag is set.  If neither holds the cycle goes straight to its
\* sleep: no sample is built, nothing is sent or appended to the offline
\* buffer, and the previous-sample snapshot is unchanged; metrics are
\* measured, and the buffer and the snapshot change, only in a cycle whose
\* evaluation found a trigger.
C22_SampleIffTrigger ==
    /\ [][EvaluateStep =>
            LET trigger == InWindow(cycle'.time) \/ user_active IN
            /\ cycle'.should_grab <=> trigger
            /\ trigger <=> agent_pc' \in {"grab", "reset_flag"}
            /\ ~trigger <=> agent_pc' = "sleep"
            /\ UNCHANGED <<built, data_buffer, file_count, files,
                           previous_data>>]_vars
    /\ [][(\/ built' # built
           \/ data_buffer' # data_buffer
           \/ files' # files
           \/ previous_data' # previous_data
           \/ cycle'.new_data # cycle.new_data /\ ~EvaluateStep)
          => ((GateStep \/ SampleHandled) /\ cycle.should_grab)]_vars
    /\ [](agent_pc \in {"grab", "reset_flag", "send"} => cycle.should_grab)

\* C22 witness: after a sample taken at the last instant of a window (09:00:00)
\* a cycle one second after the window, the flag not set, went to sleep
\* without sampling
C22_Witness ==
    /\ agent_pc = "sleep"
    /\ cycle.time = HM(9, 0) + 1 /\ ~cycle.should_grab /\ ~user_active
    /\ built = 1 /\ previous_data # ZeroData
    /\ cycle.new_data = ZeroData /\ ~cycle.significant

\* C21: the loop's read and clear of the activity flag act as one atomic
\* step under every interleaving with the listener: a set of the flag that
\* happens after the loop has read it is not erased by the loop's reset, the
\* flag is still set after the reset and a later evaluation observes it.
C21_ReadAndClearAtomic ==
    [][(agent_pc = "reset_flag" /\ agent_pc' = "grab" /\ cycle.late_event)
          => user_active']_vars

-----------------------------------------------------------------------------
(* The loop of main() under errors and interrupts (specification SpecLoop) *)

\* faulty variant: an exception in the cycle is not caught and ends the loop
GrabRaises_unhandled ==
    /\ agent_pc = "grab"
    /\ agent_pc' = "crashed"
    /\ cycle' = [cycle EXCEPT !.raised = TRUE]
    /\ UNCHANGED <<user_active, previous_data, data_buffer, file_count, files,
                   ticks, built, runs>>
    /\ UNCHANGED serverVars

\* main(), lines 430-446 and 451-453: a measurement, or the building of the
\* sample before it is sent, raises an exception; 'except Exception' catches
\* it and the loop sleeps
GrabRaises ==
    /\ agent_pc = "grab"
    /\ agent_pc' = "sleep"
    /\ cycle' = [cycle EXCEPT !.raised = TRUE]
    /\ UNCHANGED <<user_active, previous_data, data_buffer, file_count, files,
                   ticks, built, runs>>
    /\ UNCHANGED serverVars

LoopPositions == {"evaluate", "reset_flag", "grab", "send", "sleep"}

\* main(), lines 449-451: the operator interrupts the agent (KeyboardInterrupt)
\* while the loop evaluates, measures, waits for the server or sleeps
Interrupt ==
    /\ agent_pc \in LoopPositions
    /\ agent_pc' = "interrupted"
    /\ UNCHANGED <<user_active, previous_data, data_buffer, file_count, files,
                   cycle, ticks, built, runs>>
    /\ UNCHANGED serverVars

\* the interrupt may also arrive after the send has returned: before or after
\* the append and, a flush being due, during the write (no row, some rows or
\* all rows written) and before or after the counter is advanced
LoopWritesAt(rows) ==
    WritesAt(rows)
       \cup {Write("interrupted_before_append", 0),
             Write("interrupted_before_open", 0)}
       \cup (IF rows >= BatchSize
             THEN {Write("interrupted", n) : n \in PartialRows \cup {rows}}
                     \cup {Write("interrupted_before_count", 0),
                           Write("interrupted_after_count", 0)}
             ELSE {})

\* the offline buffer in full, with exceptions in the cycle and the interrupt
NextLoop ==
    \/ Evaluate(HM(8, 30), MaxTicks)
    \/ Grab(Alternate(previous_data))
    \/ \E result \in ResultsAt(cycle.timestamp),
          write \in LoopWritesAt(Len(data_buffer) + 1) :
           Send(result, write)
    \/ GrabRaises
    \/ Sleep
    \/ Interrupt

\* time.sleep(60) returns: a sleeping loop goes on unless it is interrupted
SpecLoop == InitAgentAlone /\ [][NextLoop]_vars /\ WF_vars(Sleep)

\* C24: no transport failure and no other runtime error inside a cycle ends
\* the sampling loop: the loop leaves its positions only by the operator's
\* interrupt; a cycle, failed or not, is followed by the sleep, and the sleep
\* by the next evaluation, which is eventually reached unless the operator
\* interrupts.
C24_LoopSurvivesErrors ==
    /\ [][(agent_pc \in LoopPositions /\ agent_pc' \notin LoopPositions)
            => (agent_pc' = "interrupted"
                  /\ (UNCHANGED cycle
                        \/ (cycle'.raised /\ cycle'.result \in SendResults)))]_vars
    /\ [][(agent_pc = "grab" /\ agent_pc' \in LoopPositions)
            => agent_pc' \in {"send", "sleep"}]_vars
    /\ [][(agent_pc = "send" /\ agent_pc' \in LoopPositions)
            => agent_pc' = "sleep"]_vars
    /\ [][(agent_pc = "sleep" /\ agent_pc' \in LoopPositions)
            => agent_pc' = "evaluate"]_vars
    /\ ((agent_pc = "sleep") ~> (agent_pc \in {"evaluate", "interrupted"}))

\* C24 witness: a send has failed, a write of the batch file has raised, and
\* the loop is in a later cycle
C24_Witness ==
    /\ runs.failed_writes >= 1
    /\ ticks > BatchSize
    /\ agent_pc = "grab" /\ ~cycle.raised
    /\ Len(data_buffer) >= BatchSize

=============================================================================
